---- MODULE Spec2Model ----
(***************************************************************************)
(* party-parrot: the fixture hierarchy (parrot/fixtures/base.py), the      *)
(* generic 10-channel moving head (parrot/fixtures/shenzhen/               *)
(* generic_chinese_mh.py) and the DMX transport helpers                    *)
(* (parrot/utils/dmx_utils.py).                                            *)
(*                                                                         *)
(* Numbers.  Python numbers that may be fractional (channel values,        *)
(* dimmer, strobe, speed, the manual dimmer) are fixed-point: the integer  *)
(* n stands for n / Unit.  Python ints (addresses, widths, the bytes that  *)
(* dmx_clamp returns) are plain integers; FromInt embeds them.  NaN is a   *)
(* distinguished value that every comparison must test for first.          *)
(***************************************************************************)
EXTENDS Integers, Sequences, FiniteSets, TLC

VARIABLES
    fixtures,     \* the FixtureBase objects on the heap, by index
    group,        \* the FixtureGroup / ManualGroup object, or NoGroup
    mh,           \* the GenericChineseMovingHead10ch object
    dmx,          \* the calls the most recent operation made on the transport
    warnings,     \* the logger.warning calls of the most recent operation
    err,          \* the exception the most recent operation raised, or "none"
    calls,        \* the member calls the most recent group operation made
    lastOp,       \* the most recent operation: [op, on, arg]
    sent,         \* history: the strobe values each object (0: the group) was
                  \* sent since its last begin()
    manual,       \* history: the argument of the last set_manual_dimmer, or None
    ctl           \* the transport side: the environment of the controller
                  \* factory and the controller objects, or NoCtl

vars ==
    <<fixtures, group, mh, dmx, warnings, err, calls, lastOp, sent, manual,
      ctl>>

----------------------------------------------------------------------------
(* Bounds                                                                  *)

Unit == 2          \* fixed-point denominator
MaxWidth == 2      \* widest FixtureBase constructed
MaxMembers == 2    \* longest fixture list handed to a group constructor
DistDen == 20      \* colour distances are counted in 1/DistDen

(* Program constants                                                       *)

MaxChannel == 512  \* base.py:74, the last DMX channel of a universe
ByteMax == 255     \* dmx_utils.py:22, the largest channel value

----------------------------------------------------------------------------
(* Numbers                                                                 *)

NaN == -(2 ^ 30)
FromInt(k) == k * Unit
None == <<>>
Some(v) == <<v>>

isnan(n) == n = NaN

\* Python int(): truncation toward zero.
int(n) == IF n >= 0 THEN n \div Unit ELSE -((-n) \div Unit)

\* parrot.utils.math.clamp (not in the excerpt): the numeric clamp helper.
clamp(n, lo, hi) == IF n < lo THEN lo ELSE IF n > hi THEN hi ELSE n

\* int() alone, the clamp left out.
dmx_clamp_noclamp(n) == IF isnan(n) THEN 0 ELSE int(n)

\* dmx_utils.py:19-22
dmx_clamp(n) ==
    IF isnan(n) THEN 0 ELSE int(clamp(n, FromInt(0), FromInt(ByteMax)))

\* Python max(a, b): b only when b > a.
max(a, b) == IF b > a THEN b ELSE a

MaxOf(S) ==
    IF S = {} THEN 0 ELSE CHOOSE x \in S : \A y \in S : y <= x

Universe_default == "art1"

----------------------------------------------------------------------------
(* FixtureBase                                                             *)

\* base.py:13-24
FixtureBase(address, name, width, universe) ==
    [ address      |-> address,
      name         |-> name,
      width        |-> width,
      universe     |-> universe,
      values       |-> [i \in 1..width |-> 0],
      color_value  |-> "black",
      dimmer_value |-> 0,
      strobe_value |-> 0,
      speed_value  |-> 0,
      x            |-> None,
      y            |-> None ]

\* base.py:26-29
set_position(f, x, y) == [f EXCEPT !.x = Some(x), !.y = Some(y)]

\* base.py:35-36
set_color(f, color) == [f EXCEPT !.color_value = color]

\* A dimmer that also stores the request in the first channel, as a
\* concrete fixture would.
set_dimmer_on_channel(f, value) ==
    [f EXCEPT !.dimmer_value = value, !.values[1] = value]

\* base.py:41-42
set_dimmer(f, value) == [f EXCEPT !.dimmer_value = value]

\* base.py:47-49
begin(f) == [f EXCEPT !.strobe_value = 0]

\* The last request stored, whatever was stored before.
set_strobe_lastwins(f, value) == [f EXCEPT !.strobe_value = value]

\* base.py:51-53
set_strobe(f, value) == [f EXCEPT !.strobe_value = max(f.strobe_value, value)]

\* base.py:58-62
set_pan(f, value) == f
set_tilt(f, value) == f

\* base.py:64-65
set_speed(f, value) == [f EXCEPT !.speed_value = value]

SetChannel(channel, value, universe) ==
    [op |-> "set_channel", channel |-> channel, value |-> value,
     universe |-> universe]
Submit == [op |-> "submit"]

\* The set_channel calls of a log of transport calls.
IsWrite(e) == e.op = "set_channel"
Writes(log) == SelectSeq(log, IsWrite)

\* base.py:72-82, the loop from index i (0-based) on:
\* the calls made on the transport and the warnings logged.
RECURSIVE render_loop(_, _)
render_loop(f, i) ==
    IF i >= Len(f.values) THEN [events |-> <<>>, warnings |-> 0]
    ELSE IF f.address + i > MaxChannel THEN [events |-> <<>>, warnings |-> 1]
    ELSE LET rest == render_loop(f, i + 1)
         IN  [ events   |-> << SetChannel(f.address + i,
                                          dmx_clamp(f.values[i + 1]),
                                          f.universe),
                               Submit >> \o rest.events,
               warnings |-> rest.warnings ]

\* The same loop with the channel taken one too far.
render_shifted(f) ==
    LET r == render_loop(f, 0)
    IN  [r EXCEPT !.events =
            [k \in DOMAIN r.events |->
                IF r.events[k].op = "set_channel"
                THEN [r.events[k] EXCEPT !.channel = @ + 1]
                ELSE r.events[k]]]

\* The same loop without the 512 guard, the channel wrapping around.
RECURSIVE render_wrap_loop(_, _)
render_wrap_loop(f, i) ==
    IF i >= Len(f.values) THEN [events |-> <<>>, warnings |-> 0]
    ELSE LET rest == render_wrap_loop(f, i + 1)
             ch   == ((f.address + i - 1) % MaxChannel) + 1
         IN  [ events   |-> << SetChannel(ch, dmx_clamp(f.values[i + 1]),
                                          f.universe),
                               Submit >> \o rest.events,
               warnings |-> rest.warnings ]

render_wrap(f) == render_wrap_loop(f, 0)

\* The same loop with one submit after the last write instead of one after
\* each.
render_batched(f) ==
    LET r == render_loop(f, 0)
    IN  [r EXCEPT !.events =
            IF Writes(@) = <<>> THEN <<>> ELSE Writes(@) \o << Submit >>]

\* base.py:70-82
render(f) == render_loop(f, 0)

----------------------------------------------------------------------------
(* FixtureGroup and ManualGroup.  A group holds references (indices into   *)
(* fixtures) to its members; an operation on the group takes the group     *)
(* object g and the heap fs and returns both, with the member calls made.  *)

\* A method call: its name, the object it is made on (0: the group, i: the
\* fixture of index i) and its arguments.
Op(op, on, arg) == [op |-> op, on |-> on, arg |-> arg]

\* Method dispatch on a FixtureBase object.
Call(f, op, arg) ==
    CASE op = "set_color"  -> set_color(f, arg[1])
      [] op = "set_dimmer" -> set_dimmer(f, arg[1])
      [] op = "begin"      -> begin(f)
      [] op = "set_strobe" -> set_strobe(f, arg[1])
      [] op = "set_pan"    -> set_pan(f, arg[1])
      [] op = "set_tilt"   -> set_tilt(f, arg[1])
      [] op = "set_speed"  -> set_speed(f, arg[1])

\* for fixture in self.fixtures: fixture.<op>(<arg>)   (base.py:172-204)
RECURSIVE for_each_loop(_, _, _, _)
for_each_loop(fs, members, op, arg) ==
    IF members = <<>> THEN [fixtures |-> fs, calls |-> <<>>]
    ELSE LET i    == Head(members)
             rest == for_each_loop([fs EXCEPT ![i] = Call(@, op, arg)],
                                   Tail(members), op, arg)
         IN  [fixtures |-> rest.fixtures,
              calls    |-> << Op(op, i, arg) >> \o rest.calls]

\* The loop leaving out the last member.
for_each_butlast(fs, members, op, arg) ==
    IF members = <<>> THEN [fixtures |-> fs, calls |-> <<>>]
    ELSE for_each_loop(fs, SubSeq(members, 1, Len(members) - 1), op, arg)

for_each(fs, members, op, arg) == for_each_loop(fs, members, op, arg)

\* super().<op>(<arg>) on the group, then the loop over the members.
Broadcast(g, fs, op, arg) ==
    LET r == for_each(fs, g.fixtures, op, arg)
    IN  [group |-> Call(g, op, arg), fixtures |-> r.fixtures, calls |-> r.calls]

RECURSIVE min_address(_, _)
min_address(fs, members) ==
    IF Len(members) = 1 THEN fs[members[1]].address
    ELSE LET m == min_address(fs, Tail(members))
             a == fs[Head(members)].address
         IN  IF m < a THEN m ELSE a

RECURSIVE sum_width(_, _)
sum_width(fs, members) ==
    IF members = <<>> THEN 0
    ELSE fs[Head(members)].width + sum_width(fs, Tail(members))

\* The first fixture's address, as the comment at base.py:153 words it.
first_address(fs, members) == fs[members[1]].address

\* base.py:154
group_address(fs, members) == min_address(fs, members)

\* base.py:160-165; every member modelled is a FixtureBase, and a name
\* that is given is Some(name).
group_name(members, name) ==
    IF name = None THEN << Len(members), "FixtureBase", "s" >> ELSE name

\* The constructor without the emptiness test.
FixtureGroup_init_unchecked(members, fs, name, universe) ==
    [raised |-> "none",
     group  |-> [kind |-> "FixtureGroup", fixtures |-> members]
                @@ FixtureBase(IF members = <<>> THEN 0
                               ELSE group_address(fs, members),
                               group_name(members, name),
                               sum_width(fs, members), universe),
     fixtures |-> fs,
     calls    |-> <<>>]

\* base.py:141-168; the result is an error when the list is empty.
FixtureGroup_init(members, fs, name, universe) ==
    IF members = <<>>
    THEN [raised |-> "ValueError"]
    ELSE [raised |-> "none",
          group  |-> [kind     |-> "FixtureGroup",
                      fixtures |-> members]
                     @@ FixtureBase(group_address(fs, members),
                                    group_name(members, name),
                                    sum_width(fs, members), universe),
          fixtures |-> fs,
          calls    |-> <<>>]

\* base.py:227-245
ManualGroup_init(members, fs, name, universe) ==
    LET b == FixtureGroup_init(members, fs, name, universe)
    IN  IF b.raised # "none" THEN b
        ELSE LET tagged == [i \in DOMAIN fs |->
                               IF \E k \in DOMAIN members : members[k] = i
                               THEN [parent_group |-> "self"] @@ fs[i]
                               ELSE fs[i]]
                 r == for_each(tagged, members, "set_color", << "white" >>)
             IN  [raised   |-> "none",
                  group    |-> [kind |-> "ManualGroup", manual_dimmer |-> 0]
                               @@ b.group,
                  fixtures |-> r.fixtures,
                  calls    |-> r.calls]

\* A group set_strobe that stores the request on the group alone.
FixtureGroup_set_strobe_own_only(g, fs, value) ==
    [group |-> Call(g, "set_strobe", <<value>>), fixtures |-> fs,
     calls |-> <<>>]

\* base.py:170-204
FixtureGroup_set_color(g, fs, color) == Broadcast(g, fs, "set_color", <<color>>)
FixtureGroup_set_dimmer(g, fs, value) == Broadcast(g, fs, "set_dimmer", <<value>>)
FixtureGroup_begin(g, fs) == Broadcast(g, fs, "begin", <<>>)
FixtureGroup_set_strobe(g, fs, value) == Broadcast(g, fs, "set_strobe", <<value>>)
FixtureGroup_set_pan(g, fs, value) == Broadcast(g, fs, "set_pan", <<value>>)
FixtureGroup_set_tilt(g, fs, value) == Broadcast(g, fs, "set_tilt", <<value>>)
FixtureGroup_set_speed(g, fs, value) == Broadcast(g, fs, "set_speed", <<value>>)

\* base.py:206-208
RECURSIVE FixtureGroup_render_loop(_, _)
FixtureGroup_render_loop(fs, members) ==
    IF members = <<>> THEN [events |-> <<>>, warnings |-> 0, calls |-> <<>>]
    ELSE LET r    == render(fs[Head(members)])
             rest == FixtureGroup_render_loop(fs, Tail(members))
         IN  [events   |-> r.events \o rest.events,
              warnings |-> r.warnings + rest.warnings,
              calls    |-> << Op("render", Head(members), <<>>) >> \o rest.calls]

FixtureGroup_render(g, fs) ==
    [fixtures |-> fs] @@ FixtureGroup_render_loop(fs, g.fixtures)

\* base.py:213-220
FixtureGroup_iter(g) == g.fixtures
FixtureGroup_len(g) == Len(g.fixtures)
FixtureGroup_getitem(g, index) == g.fixtures[index + 1]

\* value * 255, and int(dimmer_255) stored as a channel value
Times255(value) == value * ByteMax

\* base.py:262-263 and 275-276
write_sole_channel(f, dimmer_255) ==
    IF f.width = 1
    THEN [f EXCEPT !.values[1] = FromInt(int(dimmer_255))]
    ELSE f

\* A render that re-applies nothing.
render_apply_none(f, dimmer_255) == f

\* base.py:274-276: what ManualGroup.render does to a member before it
\* delegates.
render_apply(f, dimmer_255) ==
    write_sole_channel([f EXCEPT !.dimmer_value = dimmer_255], dimmer_255)

\* base.py:247-263
set_manual_dimmer(g, fs, value) ==
    LET dimmer_255 == Times255(value)
    IN  [group    |-> [g EXCEPT !.manual_dimmer = value,
                                !.dimmer_value = dimmer_255],
         fixtures |-> [i \in DOMAIN fs |->
                          IF \E k \in DOMAIN g.fixtures : g.fixtures[k] = i
                          THEN write_sole_channel(
                                   set_dimmer(fs[i], dimmer_255), dimmer_255)
                          ELSE fs[i]],
         calls    |-> [k \in DOMAIN g.fixtures |->
                          Op("set_dimmer", g.fixtures[k], << dimmer_255 >>)]]

\* base.py:44-45
get_dimmer(f) == f.dimmer_value

\* FixtureBase.get_dimmer, were it not overridden.
inherited_get_dimmer(g) == g.dimmer_value

\* base.py:265-267
ManualGroup_get_dimmer(g) == Times255(g.manual_dimmer)

\* base.py:269-279
ManualGroup_render(g, fs) ==
    LET dimmer_255 == Times255(g.manual_dimmer)
        applied == [i \in DOMAIN fs |->
                       IF \E k \in DOMAIN g.fixtures : g.fixtures[k] = i
                       THEN render_apply(fs[i], dimmer_255) ELSE fs[i]]
    IN  FixtureGroup_render(g, applied)

----------------------------------------------------------------------------
(* GenericChineseMovingHead10ch.  Its base class MovingHead is not in the  *)
(* excerpt: it is taken to construct as FixtureBase does and to inherit    *)
(* begin, set_color, set_dimmer, set_strobe, set_speed and render from     *)
(* FixtureBase unchanged.                                                  *)
(*                                                                         *)
(* Color and color_distance are not in the excerpt either.  A requested    *)
(* Color is given by all that set_color reads of it: its distance to the   *)
(* colour of each wheel entry, an integer count of 1/DistDen.              *)

\* generic_chinese_mh.py:30-40
COLOR_WHEEL_ENTRIES ==
    << [color |-> "white",   dmx_value |-> 0],
       [color |-> "red",     dmx_value |-> 10],
       [color |-> "green",   dmx_value |-> 20],
       [color |-> "blue",    dmx_value |-> 30],
       [color |-> "yellow",  dmx_value |-> 40],
       [color |-> "orange",  dmx_value |-> 50],
       [color |-> "cyan",    dmx_value |-> 60],
       [color |-> "purple",  dmx_value |-> 70],
       [color |-> "magenta", dmx_value |-> 80] >>

\* parrot.utils.color_extra.color_distance (not in the excerpt)
color_distance(entry_color, color) == color[entry_color]

\* float("inf")
inf == 2 ^ 30

\* parrot.fixtures.moving_head.MovingHead.__init__ (not in the excerpt)
MovingHead(address, name, width, universe) ==
    FixtureBase(address, name, width, universe)

\* generic_chinese_mh.py:80-111
GenericChineseMovingHead10ch(address, name, universe) ==
    [ kind                |-> "GenericChineseMovingHead10ch",
      _pan_dmx            |-> 0,
      _tilt_dmx           |-> 0,
      _color_wheel_dmx    |-> 0,
      _gobo_wheel_dmx     |-> 0,
      _strobe_dmx         |-> 0,
      _dimmer_dmx         |-> 0,
      _speed_dmx          |-> 0,
      _auto_mode_dmx      |-> 0,
      _auto_swivel_dmx    |-> 0,
      _led_ring_dmx       |-> 0,
      _current_gobo_index |-> 0 ]
    @@ MovingHead(address, name, 10,
                  IF universe = None THEN Universe_default ELSE universe)

\* generic_chinese_mh.py:135-142: the scan from entry k on, given the
\* closest entry (0: None) and its distance so far.
RECURSIVE closest_scan(_, _, _, _)
closest_scan(color, k, closest_entry, closest_distance) ==
    IF k > Len(COLOR_WHEEL_ENTRIES)
    THEN [entry |-> closest_entry, distance |-> closest_distance]
    ELSE LET dist == color_distance(COLOR_WHEEL_ENTRIES[k].color, color)
         IN  IF dist < closest_distance
             THEN closest_scan(color, k + 1, k, dist)
             ELSE closest_scan(color, k + 1, closest_entry, closest_distance)

\* list.sort(key=...): a stable insertion of x into a sorted list.
RECURSIVE insert_sorted(_, _)
insert_sorted(sorted, x) ==
    IF sorted = <<>> THEN << x >>
    ELSE IF x[2] < Head(sorted)[2] THEN << x >> \o sorted
    ELSE << Head(sorted) >> \o insert_sorted(Tail(sorted), x)

RECURSIVE sort_by_distance(_)
sort_by_distance(list) ==
    IF list = <<>> THEN <<>>
    ELSE insert_sorted(sort_by_distance(SubSeq(list, 1, Len(list) - 1)),
                       list[Len(list)])

\* A test no distance passes.
never_close(distance) == FALSE

\* generic_chinese_mh.py:150: closest_distance < 0.1
is_very_close(distance) == 10 * distance < DistDen

\* generic_chinese_mh.py:173: int(128 + (255 - 128) * ratio) with
\* ratio = first_dist / total_dist
split_value(first_dist, total_dist) ==
    128 + ((ByteMax - 128) * first_dist) \div total_dist

\* The nearest entry's value whatever the distance, without split mode.
color_wheel_dmx_nearest(color) ==
    LET closest == closest_scan(color, 1, 0, inf)
    IN  IF closest.entry = 0 THEN 0
        ELSE COLOR_WHEEL_ENTRIES[closest.entry].dmx_value

\* generic_chinese_mh.py:134-178: the value stored in _color_wheel_dmx
color_wheel_dmx(color) ==
    LET closest == closest_scan(color, 1, 0, inf)
        distances == sort_by_distance(
            [k \in DOMAIN COLOR_WHEEL_ENTRIES |->
                << k, color_distance(COLOR_WHEEL_ENTRIES[k].color, color) >>])
        total_dist == distances[1][2] + distances[2][2]
    IN  IF closest.entry = 0 THEN 0
        ELSE IF is_very_close(closest.distance)
        THEN COLOR_WHEEL_ENTRIES[closest.entry].dmx_value
        ELSE IF Len(distances) >= 2
        THEN IF total_dist > 0
             THEN split_value(distances[1][2], total_dist)
             ELSE COLOR_WHEEL_ENTRIES[closest.entry].dmx_value
        ELSE COLOR_WHEEL_ENTRIES[closest.entry].dmx_value

\* generic_chinese_mh.py:127-178
mh_set_color(m, color) ==
    [set_color(m, color) EXCEPT !._color_wheel_dmx = color_wheel_dmx(color)]

\* generic_chinese_mh.py:180-183
mh_set_dimmer(m, value) ==
    [set_dimmer(m, value) EXCEPT !._dimmer_dmx = dmx_clamp(value)]

\* generic_chinese_mh.py:185-188
mh_set_strobe(m, value) ==
    [set_strobe(m, value) EXCEPT !._strobe_dmx = dmx_clamp(value)]

\* generic_chinese_mh.py:190-193
mh_set_speed(m, value) ==
    [set_speed(m, value) EXCEPT !._speed_dmx = dmx_clamp(value)]

\* generic_chinese_mh.py:46-57
GOBO_PATTERN_RANGES ==
    [ name \in { "Backgammon 1", "Backgammon 2", "Backgammon 3",
                 "Backgammon 4", "Backgammon 5", "Backgammon 6",
                 "Backgammon 7", "Open", "Backgammon Flow",
                 "5-Ball Shake" } |->
        CASE name = "Backgammon 1"    -> << 0, 31 >>
          [] name = "Backgammon 2"    -> << 32, 63 >>
          [] name = "Backgammon 3"    -> << 64, 95 >>
          [] name = "Backgammon 4"    -> << 96, 127 >>
          [] name = "Backgammon 5"    -> << 128, 159 >>
          [] name = "Backgammon 6"    -> << 160, 191 >>
          [] name = "Backgammon 7"    -> << 192, 223 >>
          [] name = "Open"            -> << 224, 231 >>
          [] name = "Backgammon Flow" -> << 232, 247 >>
          [] name = "5-Ball Shake"    -> << 248, 255 >> ]

\* generic_chinese_mh.py:61-72
GOBO_WHEEL_ENTRIES ==
    << [name |-> "open",      dmx_value |-> 65],
       [name |-> "dots",      dmx_value |-> 72],
       [name |-> "spiral",    dmx_value |-> 80],
       [name |-> "spiral2",   dmx_value |-> 88],
       [name |-> "starburst", dmx_value |-> 96],
       [name |-> "four",      dmx_value |-> 104],
       [name |-> "waves",     dmx_value |-> 112],
       [name |-> "biohazard", dmx_value |-> 120],
       [name |-> "ring",      dmx_value |-> 128],
       [name |-> "flower",    dmx_value |-> 136] >>

\* Python's min(a, b)
min(a, b) == IF b < a THEN b ELSE a

\* generic_chinese_mh.py:214-218: the loop from entry k on; the position
\* of the first entry named gobo_name, 0 when the loop ends without one.
RECURSIVE gobo_find(_, _)
gobo_find(gobo_name, k) ==
    IF k > Len(GOBO_WHEEL_ENTRIES) THEN 0
    ELSE IF GOBO_WHEEL_ENTRIES[k].name = gobo_name THEN k
    ELSE gobo_find(gobo_name, k + 1)

\* The range at the position of the entry named gobo_name, the two tables
\* read side by side.
pattern_range_by_position(gobo_name) ==
    LET k == gobo_find(gobo_name, 1)
    IN  Some(<< 32 * (k - 1), 32 * (k - 1) + 31 >>)

\* generic_chinese_mh.py:217: GOBO_PATTERN_RANGES.get(gobo_name)
pattern_range_of(gobo_name) ==
    IF gobo_name \in DOMAIN GOBO_PATTERN_RANGES
    THEN Some(GOBO_PATTERN_RANGES[gobo_name])
    ELSE None

\* generic_chinese_mh.py:225-231: the static pattern's value
gobo_static_dmx(k, pattern_range) ==
    IF pattern_range # None
    THEN pattern_range[1][1]
    ELSE GOBO_WHEEL_ENTRIES[k].dmx_value

\* generic_chinese_mh.py:236-237: speed counts 1/Unit
swivel_value(speed) ==
    LET speed_clamped == max(0, min(FromInt(1), speed))
    IN  int(FromInt(128) + (ByteMax - 128) * speed_clamped)

\* set_gobo without the test of generic_chinese_mh.py:220-221: an unknown
\* name selects the first entry.
mh_set_gobo_unchecked(m, gobo_name, speed) ==
    LET found == gobo_find(gobo_name, 1)
        k     == IF found = 0 THEN 1 ELSE found
    IN  [ raised |-> "none",
          object |->
            [m EXCEPT !._current_gobo_index = k - 1,
                      !._gobo_wheel_dmx =
                          IF speed <= 0
                          THEN gobo_static_dmx(k, pattern_range_of(gobo_name))
                          ELSE swivel_value(speed)] ]

\* generic_chinese_mh.py:195-238: the object after the call and the
\* exception raised.
mh_set_gobo(m, gobo_name, speed) ==
    LET k == gobo_find(gobo_name, 1)
    IN  IF k = 0
        THEN [raised |-> "ValueError", object |-> m]
        ELSE [ raised |-> "none",
               object |->
                 [m EXCEPT !._current_gobo_index = k - 1,
                           !._gobo_wheel_dmx =
                               IF speed <= 0
                               THEN gobo_static_dmx(k,
                                        pattern_range_of(gobo_name))
                               ELSE swivel_value(speed)] ]

\* set_pan and set_tilt are not defined by the class (the block at
\* generic_chinese_mh.py:113-125 is commented out); the inherited methods
\* assign none of the class's _*_dmx fields, which only __init__ and the
\* setters above assign.
mh_set_pan(m, value) == set_pan(m, value)
mh_set_tilt(m, value) == set_tilt(m, value)

\* begin is not overridden: FixtureBase.begin (base.py:47-49)
mh_begin(m) == begin(m)

\* generic_chinese_mh.py:266-276; values hold numbers, the fields bytes.
mh_map_channels(m) ==
    [m EXCEPT !.values =
        << FromInt(m._pan_dmx), FromInt(m._tilt_dmx),
           FromInt(m._color_wheel_dmx), FromInt(m._gobo_wheel_dmx),
           FromInt(m._strobe_dmx), FromInt(m._dimmer_dmx),
           FromInt(m._speed_dmx), FromInt(m._auto_mode_dmx),
           FromInt(m._auto_swivel_dmx), FromInt(m._led_ring_dmx) >>]

\* generic_chinese_mh.py:262-279: the object after render, the calls made
\* on the transport and the warnings logged.
mh_render(m) ==
    LET mapped == mh_map_channels(m)
    IN  [object |-> mapped] @@ render(mapped)

----------------------------------------------------------------------------
(* The state shared by the specifications                                  *)

NoGroup == [kind |-> "none"]
NoCtl == [kind |-> "none"]
NoMH == [kind |-> "none"]

\* The inputs the callers are given.
Addresses == {1} \cup ((MaxChannel - MaxWidth + 1) .. (MaxChannel + 1))
ValSet == {NaN, -1, FromInt(100) + 1, FromInt(ByteMax) + 1}
StrobeSet == {-1, FromInt(5), FromInt(10)}
DimmerSet == {FromInt(200)}
ColorSet == {"red"}
SpeedSet == {FromInt(3)}

----------------------------------------------------------------------------
(* SpecBase: one FixtureBase and the transport it renders to               *)

BaseInit ==
    /\ \E a \in Addresses, w \in 1..MaxWidth :
          fixtures = << FixtureBase(a, "PAR", w, Universe_default) >>
    /\ group = NoGroup
    /\ mh = NoMH
    /\ dmx = <<>>
    /\ warnings = 0
    /\ err = "none"
    /\ calls = <<>>
    /\ lastOp = Op("__init__", 1, <<>>)
    /\ sent = [i \in 0..1 |-> {}]
    /\ manual = None
    /\ ctl = NoCtl

\* An operation on fixture 1 that issues no transport call.
BaseStep(f, op, arg) ==
    /\ fixtures' = << f >>
    /\ lastOp' = Op(op, 1, arg)
    /\ dmx' = <<>>
    /\ warnings' = 0
    /\ UNCHANGED <<group, mh, err, calls, manual, ctl>>

BaseSetPosition ==
    /\ BaseStep(set_position(fixtures[1], 1, 2), "set_position", <<1, 2>>)
    /\ UNCHANGED sent

BaseSetColor ==
    \E c \in ColorSet :
        /\ BaseStep(set_color(fixtures[1], c), "set_color", <<c>>)
        /\ UNCHANGED sent

BaseSetDimmer ==
    \E v \in DimmerSet :
        /\ BaseStep(set_dimmer(fixtures[1], v), "set_dimmer", <<v>>)
        /\ UNCHANGED sent

BaseBegin ==
    /\ BaseStep(begin(fixtures[1]), "begin", <<>>)
    /\ sent' = [sent EXCEPT ![1] = {}]

BaseSetStrobe ==
    \E v \in StrobeSet :
        /\ BaseStep(set_strobe(fixtures[1], v), "set_strobe", <<v>>)
        /\ sent' = [sent EXCEPT ![1] = @ \cup {v}]

BaseSetPan ==
    \E v \in SpeedSet :
        /\ BaseStep(set_pan(fixtures[1], v), "set_pan", <<v>>)
        /\ UNCHANGED sent

BaseSetTilt ==
    \E v \in SpeedSet :
        /\ BaseStep(set_tilt(fixtures[1], v), "set_tilt", <<v>>)
        /\ UNCHANGED sent

BaseSetSpeed ==
    \E v \in SpeedSet :
        /\ BaseStep(set_speed(fixtures[1], v), "set_speed", <<v>>)
        /\ UNCHANGED sent

\* A subclass or an owner stores a channel value (as base.py:263 does).
BaseWriteValue ==
    \E i \in 1..fixtures[1].width, v \in ValSet :
        /\ BaseStep([fixtures[1] EXCEPT !.values[i] = v], "values", <<i, v>>)
        /\ UNCHANGED sent

BaseRender ==
    LET r == render(fixtures[1])
    IN  /\ dmx' = r.events
        /\ warnings' = r.warnings
        /\ lastOp' = Op("render", 1, <<>>)
        /\ UNCHANGED <<fixtures, group, mh, err, calls, sent, manual, ctl>>

BaseNext ==
    \/ BaseSetPosition
    \/ BaseSetColor
    \/ BaseSetDimmer
    \/ BaseBegin
    \/ BaseSetStrobe
    \/ BaseSetPan
    \/ BaseSetTilt
    \/ BaseSetSpeed
    \/ BaseWriteValue
    \/ BaseRender

SpecBase == BaseInit /\ [][BaseNext]_vars

----------------------------------------------------------------------------
(* SpecGroup: a pool of FixtureBase objects, a FixtureGroup or ManualGroup *)
(* built from a list of them, and the operations made on the group.        *)

PoolAddress(i) == IF i = 1 THEN 5 ELSE IF i = 2 THEN 10 ELSE 3 + 20 * (i - 3)
PoolWidth(i) == IF i % 2 = 1 THEN 1 ELSE 2

\* The fixture lists a constructor is given: every list of distinct
\* fixtures of the pool, the empty list included.
FixtureLists ==
    { l \in UNION { [1..n -> 1..MaxMembers] : n \in 0..MaxMembers } :
        \A j, k \in DOMAIN l : j # k => l[j] # l[k] }

GroupNames == {None, Some("Truckee Movers")}
ManualDimmerSet == {0, 1, Unit}

IsMember(i) == \E k \in DOMAIN group.fixtures : group.fixtures[k] = i
HasGroup == group.kind # "none"

GroupInit ==
    /\ fixtures = [i \in 1..MaxMembers |->
                      FixtureBase(PoolAddress(i), "PAR", PoolWidth(i),
                                  Universe_default)]
    /\ group = NoGroup
    /\ mh = NoMH
    /\ dmx = <<>>
    /\ warnings = 0
    /\ err = "none"
    /\ calls = <<>>
    /\ lastOp = Op("__init__", 1, <<>>)
    /\ sent = [i \in 0..MaxMembers |-> {}]
    /\ manual = None
    /\ ctl = NoCtl

\* The outcome r of a constructor call.
Constructed(r, kind, members) ==
    /\ lastOp' = Op(kind, 0, << members >>)
    /\ err' = r.raised
    /\ IF r.raised = "none"
       THEN /\ group' = r.group
            /\ fixtures' = r.fixtures
            /\ calls' = r.calls
       ELSE /\ calls' = <<>>
            /\ UNCHANGED <<group, fixtures>>
    /\ dmx' = <<>>
    /\ warnings' = 0
    /\ UNCHANGED <<mh, sent, manual, ctl>>

NewFixtureGroup ==
    /\ ~HasGroup
    /\ \E members \in FixtureLists, name \in GroupNames :
          Constructed(FixtureGroup_init(members, fixtures, name,
                                        Universe_default),
                      "FixtureGroup", members)

NewManualGroup ==
    /\ ~HasGroup
    /\ \E members \in FixtureLists :
          Constructed(ManualGroup_init(members, fixtures,
                                       Some("Manual Control Group"),
                                       Universe_default),
                      "ManualGroup", members)

\* A call on the group that reaches no transport: r is its outcome.
GroupStep(r, op, arg) ==
    /\ group' = r.group
    /\ fixtures' = r.fixtures
    /\ calls' = r.calls
    /\ lastOp' = Op(op, 0, arg)
    /\ dmx' = <<>>
    /\ warnings' = 0
    /\ err' = "none"
    /\ UNCHANGED mh

GroupSetColor ==
    /\ HasGroup
    /\ \E c \in ColorSet :
          GroupStep(FixtureGroup_set_color(group, fixtures, c),
                    "set_color", <<c>>)
    /\ UNCHANGED <<sent, manual, ctl>>

GroupSetDimmer ==
    /\ HasGroup
    /\ \E v \in DimmerSet :
          GroupStep(FixtureGroup_set_dimmer(group, fixtures, v),
                    "set_dimmer", <<v>>)
    /\ UNCHANGED <<sent, manual, ctl>>

GroupBegin ==
    /\ HasGroup
    /\ GroupStep(FixtureGroup_begin(group, fixtures), "begin", <<>>)
    /\ sent' = [i \in DOMAIN sent |->
                   IF i = 0 \/ IsMember(i) THEN {} ELSE sent[i]]
    /\ UNCHANGED <<manual, ctl>>

GroupSetStrobe ==
    /\ HasGroup
    /\ \E v \in StrobeSet :
          /\ GroupStep(FixtureGroup_set_strobe(group, fixtures, v),
                       "set_strobe", <<v>>)
          /\ sent' = [i \in DOMAIN sent |->
                         IF i = 0 \/ IsMember(i) THEN sent[i] \cup {v}
                         ELSE sent[i]]
    /\ UNCHANGED <<manual, ctl>>

GroupSetPan ==
    /\ HasGroup
    /\ \E v \in SpeedSet :
          GroupStep(FixtureGroup_set_pan(group, fixtures, v), "set_pan", <<v>>)
    /\ UNCHANGED <<sent, manual, ctl>>

GroupSetTilt ==
    /\ HasGroup
    /\ \E v \in SpeedSet :
          GroupStep(FixtureGroup_set_tilt(group, fixtures, v),
                    "set_tilt", <<v>>)
    /\ UNCHANGED <<sent, manual, ctl>>

GroupSetSpeed ==
    /\ HasGroup
    /\ \E v \in SpeedSet :
          GroupStep(FixtureGroup_set_speed(group, fixtures, v),
                    "set_speed", <<v>>)
    /\ UNCHANGED <<sent, manual, ctl>>

SetManualDimmer ==
    /\ group.kind = "ManualGroup"
    /\ \E v \in ManualDimmerSet :
          /\ GroupStep(set_manual_dimmer(group, fixtures, v),
                       "set_manual_dimmer", <<v>>)
          /\ manual' = Some(v)
          /\ UNCHANGED ctl
    /\ UNCHANGED sent

\* render on the group, dispatched on its class.
GroupRender ==
    /\ HasGroup
    /\ LET r == IF group.kind = "ManualGroup"
                THEN ManualGroup_render(group, fixtures)
                ELSE FixtureGroup_render(group, fixtures)
       IN  /\ fixtures' = r.fixtures
           /\ dmx' = r.events
           /\ warnings' = r.warnings
           /\ calls' = r.calls
    /\ lastOp' = Op("render", 0, <<>>)
    /\ err' = "none"
    /\ UNCHANGED <<group, mh, sent, manual, ctl>>

GroupNext ==
    \/ NewFixtureGroup
    \/ NewManualGroup
    \/ GroupSetColor
    \/ GroupSetDimmer
    \/ GroupBegin
    \/ GroupSetStrobe
    \/ GroupSetPan
    \/ GroupSetTilt
    \/ GroupSetSpeed
    \/ SetManualDimmer
    \/ GroupRender

SpecGroup == GroupInit /\ [][GroupNext]_vars

----------------------------------------------------------------------------
(* SpecManual: a ManualGroup over the whole pool, the automatic dimmer     *)
(* calls of a frame (on the group and directly on its members) and the     *)
(* operator's set_manual_dimmer.                                           *)

WholePool == [k \in 1..MaxMembers |-> k]

ManualInit ==
    LET r == ManualGroup_init(WholePool,
                 [i \in 1..MaxMembers |->
                     FixtureBase(PoolAddress(i), "PAR", PoolWidth(i),
                                 Universe_default)],
                 Some("Manual Control Group"), Universe_default)
    IN  /\ fixtures = r.fixtures
        /\ group = r.group
        /\ calls = r.calls
        /\ err = r.raised
        /\ lastOp = Op("ManualGroup", 0, << WholePool >>)
        /\ mh = NoMH
        /\ dmx = <<>>
        /\ warnings = 0
        /\ sent = [i \in 0..MaxMembers |-> {}]
        /\ manual = None
        /\ ctl = NoCtl

\* A call made directly on the member of index i.
MemberStep(i, f, op, arg) ==
    /\ fixtures' = [fixtures EXCEPT ![i] = f]
    /\ lastOp' = Op(op, i, arg)
    /\ calls' = <<>>
    /\ dmx' = <<>>
    /\ warnings' = 0
    /\ err' = "none"
    /\ UNCHANGED <<group, mh>>

MemberSetDimmer ==
    /\ HasGroup
    /\ \E i \in DOMAIN fixtures, v \in DimmerSet :
          /\ IsMember(i)
          /\ MemberStep(i, set_dimmer(fixtures[i], v), "set_dimmer", <<v>>)
    /\ UNCHANGED <<sent, manual, ctl>>

\* fixture.dimmer_value = v, written from outside the fixture.
MemberWriteDimmer ==
    /\ HasGroup
    /\ \E i \in DOMAIN fixtures, v \in DimmerSet :
          /\ IsMember(i)
          /\ MemberStep(i, [fixtures[i] EXCEPT !.dimmer_value = v],
                        "dimmer_value", <<v>>)
    /\ UNCHANGED <<sent, manual, ctl>>

\* fixture.values[0] = v: the member's own channel logic stores a value.
MemberWriteValue ==
    /\ HasGroup
    /\ \E i \in DOMAIN fixtures :
          /\ IsMember(i)
          /\ MemberStep(i, [fixtures[i] EXCEPT !.values[1] = FromInt(50)],
                        "values", << 1, FromInt(50) >>)
    /\ UNCHANGED <<sent, manual, ctl>>

ManualNext ==
    \/ GroupBegin
    \/ GroupSetDimmer
    \/ MemberSetDimmer
    \/ MemberWriteDimmer
    \/ MemberWriteValue
    \/ SetManualDimmer
    \/ GroupRender

SpecManual == ManualInit /\ [][ManualNext]_vars

----------------------------------------------------------------------------
(* SpecMH and SpecMHColor: one GenericChineseMovingHead10ch, its per-frame *)
(* calls and its render.  Here sent is None until the first begin() and    *)
(* Some(S) after it, S the strobe values requested since the last begin(), *)
(* and calls holds the arguments of the last set_color, set_gobo, set_pan  *)
(* and set_tilt call made on the fixture, None before the first.           *)

MHAddresses == {1, 20}

WheelNames == { COLOR_WHEEL_ENTRIES[k].color : k \in DOMAIN COLOR_WHEEL_ENTRIES }
Far == DistDen
NearDists == {1, DistDen \div 10, DistDen \div 4}

\* The colour at distance d1 of n1, d2 of n2 and Far of every other entry.
ColorAt(n1, d1, n2, d2) ==
    [n \in WheelNames |-> IF n = n1 THEN d1 ELSE IF n = n2 THEN d2 ELSE Far]

\* The colours requested: each wheel colour itself, colours near orange
\* alone, and colours near both red and orange.
MHColors ==
    { ColorAt(n, 0, n, 0) : n \in WheelNames }
    \cup { ColorAt("orange", d, "orange", d) : d \in NearDists }
    \cup { ColorAt("orange", d1, "red", d2) : d1, d2 \in NearDists }

MHTracked == {"set_color", "set_gobo", "set_pan", "set_tilt"}

MHInit ==
    /\ \E a \in MHAddresses :
          mh = GenericChineseMovingHead10ch(a, "Front Spot 1", None)
    /\ fixtures = <<>>
    /\ group = NoGroup
    /\ dmx = <<>>
    /\ warnings = 0
    /\ err = "none"
    /\ calls = [o \in MHTracked |-> None]
    /\ lastOp = Op("__init__", 1, <<>>)
    /\ sent = None
    /\ manual = None
    /\ ctl = NoCtl

\* A call on the moving head that reaches no transport.
MHStep(m, op, arg) ==
    /\ mh' = m
    /\ lastOp' = Op(op, 1, arg)
    /\ dmx' = <<>>
    /\ warnings' = 0
    /\ calls' = IF op \in MHTracked THEN [calls EXCEPT ![op] = Some(arg)]
                                     ELSE calls
    /\ UNCHANGED <<fixtures, group, manual, ctl>>

MHBegin ==
    /\ MHStep(mh_begin(mh), "begin", <<>>)
    /\ err' = "none"
    /\ sent' = Some({})

MHSetStrobe ==
    \E v \in StrobeSet :
        /\ MHStep(mh_set_strobe(mh, v), "set_strobe", <<v>>)
        /\ err' = "none"
        /\ sent' = IF sent = None THEN None ELSE Some(sent[1] \cup {v})

MHSetColor ==
    \E c \in MHColors :
        /\ MHStep(mh_set_color(mh, c), "set_color", <<c>>)
        /\ err' = "none"
        /\ UNCHANGED sent

MHSetDimmer ==
    \E v \in DimmerSet :
        /\ MHStep(mh_set_dimmer(mh, v), "set_dimmer", <<v>>)
        /\ err' = "none"
        /\ UNCHANGED sent

MHSetSpeed ==
    \E v \in SpeedSet :
        /\ MHStep(mh_set_speed(mh, v), "set_speed", <<v>>)
        /\ err' = "none"
        /\ UNCHANGED sent

MHRender ==
    LET r == mh_render(mh)
    IN  /\ mh' = r.object
        /\ dmx' = r.events
        /\ warnings' = r.warnings
        /\ lastOp' = Op("render", 1, <<>>)
        /\ err' = "none"
        /\ UNCHANGED <<fixtures, group, calls, sent, manual, ctl>>

\* The strobe, dimmer and speed calls of a frame.
MHNext ==
    \/ MHBegin
    \/ MHSetStrobe
    \/ MHSetDimmer
    \/ MHSetSpeed
    \/ MHRender

SpecMH == MHInit /\ [][MHNext]_vars

\* The colour calls of a frame.
MHColorNext ==
    \/ MHBegin
    \/ MHSetColor
    \/ MHSetDimmer
    \/ MHRender

SpecMHColor == MHInit /\ [][MHColorNext]_vars

\* The names and speeds set_gobo is called with: every table name, a name
\* in no table and a key of GOBO_PATTERN_RANGES; the default speed 0, a
\* negative speed, a speed inside (0, 1), 1 and a speed above 1.
GoboNames ==
    { GOBO_WHEEL_ENTRIES[k].name : k \in DOMAIN GOBO_WHEEL_ENTRIES }
    \cup {"prism", "Open"}
GoboSpeeds == {0, -1, 1, FromInt(1), FromInt(2)}
PanSet == {FromInt(0), FromInt(ByteMax)}

MHSetGobo ==
    \E n \in GoboNames, s \in GoboSpeeds :
        LET r == mh_set_gobo(mh, n, s)
        IN  /\ MHStep(r.object, "set_gobo", <<n, s>>)
            /\ err' = r.raised
            /\ UNCHANGED sent

MHSetPan ==
    \E v \in PanSet :
        /\ MHStep(mh_set_pan(mh, v), "set_pan", <<v>>)
        /\ err' = "none"
        /\ UNCHANGED sent

MHSetTilt ==
    \E v \in PanSet :
        /\ MHStep(mh_set_tilt(mh, v), "set_tilt", <<v>>)
        /\ err' = "none"
        /\ UNCHANGED sent

\* The gobo calls of a frame.
MHGoboNext ==
    \/ MHBegin
    \/ MHSetGobo
    \/ MHRender

SpecMHGobo == MHInit /\ [][MHGoboNext]_vars

\* The pan, tilt and speed calls of a frame.
MHPanNext ==
    \/ MHBegin
    \/ MHSetPan
    \/ MHSetTilt
    \/ MHSetSpeed
    \/ MHSetDimmer
    \/ MHRender

SpecMHPan == MHInit /\ [][MHPanNext]_vars

----------------------------------------------------------------------------
(* Claims on SpecBase                                                      *)

Rendered == lastOp.op = "render"
Fits(f) == f.address >= 1 /\ f.address + f.width - 1 <= MaxChannel

\* C1: a fixture that fits in the universe (address a >= 1, a + w - 1 <=
\* 512) renders exactly w writes, the i-th to channel a + i with the byte
\* dmx_clamp(values[i]) in 0..255 on the fixture's universe.
C1_RenderWritesEveryChannel ==
    LET f == fixtures[1]
        w == Writes(dmx)
    IN  (Rendered /\ Fits(f)) =>
            /\ Len(w) = f.width
            /\ \A i \in 1..f.width :
                  /\ w[i].channel = f.address + (i - 1)
                  /\ w[i].value = dmx_clamp(f.values[i])
                  /\ w[i].value \in 0..ByteMax
                  /\ w[i].universe = f.universe

\* C1 witness: a fixture ending exactly on channel 512 was rendered with a
\* NaN and an over-range value in its array.
C1_Witness ==
    LET f == fixtures[1]
    IN  /\ Rendered
        /\ f.width >= 2
        /\ f.address + f.width - 1 = MaxChannel
        /\ f.values[1] = NaN
        /\ f.values[2] > FromInt(ByteMax)
        /\ Len(Writes(dmx)) = f.width

\* C2: a fixture that runs past channel 512 renders exactly the channels
\* a..512 (none when a > 512), nothing above 512 and nothing wrapped, logs
\* one warning and raises nothing.
C2_RenderStopsAt512 ==
    LET f == fixtures[1]
        w == Writes(dmx)
        n == IF f.address > MaxChannel THEN 0 ELSE MaxChannel - f.address + 1
    IN  (Rendered /\ f.address + f.width - 1 > MaxChannel) =>
            /\ Len(w) = n
            /\ n < f.width
            /\ \A i \in 1..n : w[i].channel = f.address + (i - 1)
            /\ \A i \in 1..Len(w) : w[i].channel <= MaxChannel
            /\ warnings = 1
            /\ err = "none"

\* C2 witness: a fixture at 512 with two channels was rendered: one write.
C2_Witness ==
    LET f == fixtures[1]
    IN  /\ Rendered
        /\ f.address = MaxChannel
        /\ f.width >= 2
        /\ Len(Writes(dmx)) = 1
        /\ warnings = 1

\* C3: the stored strobe is the maximum of 0 and the values requested since
\* the last begin(), whatever their order, and begin() leaves it 0.
C3_StrobeIsMaxOfRequests ==
    LET f == fixtures[1]
    IN  /\ f.strobe_value = MaxOf(sent[1] \cup {0})
        /\ (lastOp.op = "begin" => f.strobe_value = 0)

\* C3 witness: set_strobe(5) was called after set_strobe(10); 10 is kept.
C3_Witness ==
    /\ lastOp.op = "set_strobe"
    /\ lastOp.arg = << FromInt(5) >>
    /\ FromInt(10) \in sent[1]
    /\ fixtures[1].strobe_value = FromInt(10)

----------------------------------------------------------------------------
(* Claims on SpecManual and SpecGroup                                      *)

Members == { group.fixtures[k] : k \in DOMAIN group.fixtures }
ByGroup(op) == lastOp.on = 0 /\ lastOp.op = op
Setters ==
    {"set_color", "set_dimmer", "begin", "set_strobe", "set_pan", "set_tilt",
     "set_speed"}
Constructors == {"FixtureGroup", "ManualGroup"}

\* The byte a width-1 member at address a was rendered with.
WrittenAt(a) == { e.value : e \in { dmx[k] : k \in
                     { j \in DOMAIN dmx : IsWrite(dmx[j]) /\ dmx[j].channel = a } } }

\* C5: when ManualGroup.render has run and the last set_manual_dimmer was
\* set_manual_dimmer(v), every member holds dimmer_value v*255, every
\* width-1 member holds int(v*255) in its channel and that byte is what was
\* transmitted for it, whatever automatic calls came before.
C5_ManualDimmerWinsAtRender ==
    (ByGroup("render") /\ group.kind = "ManualGroup" /\ manual # None) =>
        \A i \in Members :
            /\ fixtures[i].dimmer_value = manual[1] * ByteMax
            /\ fixtures[i].width = 1 =>
                  /\ fixtures[i].values[1]
                        = FromInt((manual[1] * ByteMax) \div Unit)
                  /\ WrittenAt(fixtures[i].address)
                        = { (manual[1] * ByteMax) \div Unit }

\* C5 witness: render ran after set_manual_dimmer(1/Unit) and a later
\* automatic set_dimmer(200) on the group.
C5_Witness ==
    /\ ByGroup("render")
    /\ group.kind = "ManualGroup"
    /\ manual = Some(1)
    /\ group.dimmer_value = FromInt(200)
    /\ \E i \in Members :
          /\ fixtures[i].width = 1
          /\ fixtures[i].dimmer_value = ByteMax
          /\ WrittenAt(fixtures[i].address) = { ByteMax \div Unit }

\* C6: set_manual_dimmer(v) calls set_dimmer(v*255) on every member, leaves
\* every width-1 member with int(v*255) in its channel, and the group's
\* get_dimmer reports v*255 from then on, also after group.set_dimmer.
C6_SetManualDimmer ==
    /\ (group.kind = "ManualGroup" /\ manual # None) =>
           ManualGroup_get_dimmer(group) = manual[1] * ByteMax
    /\ ByGroup("set_manual_dimmer") =>
          /\ manual = lastOp.arg
          /\ calls = [k \in DOMAIN group.fixtures |->
                         Op("set_dimmer", group.fixtures[k],
                            << lastOp.arg[1] * ByteMax >>)]
          /\ \A i \in Members :
                /\ get_dimmer(fixtures[i]) = lastOp.arg[1] * ByteMax
                /\ fixtures[i].width = 1 =>
                      fixtures[i].values[1]
                          = FromInt((lastOp.arg[1] * ByteMax) \div Unit)

\* C6 witness: the group's set_dimmer(200) was called after
\* set_manual_dimmer(1/Unit); get_dimmer still reports 255/Unit.
C6_Witness ==
    /\ ByGroup("set_dimmer")
    /\ group.kind = "ManualGroup"
    /\ manual = Some(1)
    /\ group.dimmer_value = FromInt(200)
    /\ ManualGroup_get_dimmer(group) = ByteMax

\* C7: a setter of the group applies the base behaviour to the group's own
\* fields and calls the same operation with the same argument once on every
\* member, in member order; after set_color(c) the group and every member
\* report c.
C7_SettersBroadcast ==
    (lastOp.on = 0 /\ lastOp.op \in Setters) =>
        /\ calls = [k \in DOMAIN group.fixtures |->
                       Op(lastOp.op, group.fixtures[k], lastOp.arg)]
        /\ lastOp.op = "set_color" =>
              /\ group.color_value = lastOp.arg[1]
              /\ \A i \in Members : fixtures[i].color_value = lastOp.arg[1]
        /\ lastOp.op = "set_dimmer" =>
              /\ group.dimmer_value = lastOp.arg[1]
              /\ \A i \in Members : fixtures[i].dimmer_value = lastOp.arg[1]
        /\ lastOp.op = "set_speed" =>
              /\ group.speed_value = lastOp.arg[1]
              /\ \A i \in Members : fixtures[i].speed_value = lastOp.arg[1]
        /\ lastOp.op = "begin" =>
              /\ group.strobe_value = 0
              /\ \A i \in Members : fixtures[i].strobe_value = 0
        /\ lastOp.op = "set_strobe" =>
              /\ group.strobe_value = MaxOf(sent[0] \cup {0})
              /\ \A i \in Members :
                    fixtures[i].strobe_value = MaxOf(sent[i] \cup {0})

\* C7 witness: set_color("red") on a group of two or more members.
C7_Witness ==
    /\ ByGroup("set_color")
    /\ Len(group.fixtures) >= 2
    /\ group.color_value = "red"
    /\ \A i \in Members : fixtures[i].color_value = "red"
    /\ Len(calls) = Len(group.fixtures)

RECURSIVE WidthTotal(_)
WidthTotal(S) ==
    IF S = {} THEN 0
    ELSE LET i == CHOOSE i \in S : TRUE
         IN  fixtures[i].width + WidthTotal(S \ {i})

C9_EmptyListRejected ==
    /\ HasGroup => Len(group.fixtures) >= 1
    /\ lastOp.op \in Constructors =>
          IF lastOp.arg[1] = <<>>
          THEN err = "ValueError" /\ ~HasGroup
          ELSE err = "none" /\ HasGroup

\* C9 witness: ManualGroup([]) was called and raised.
C9_Witness ==
    /\ lastOp.op = "ManualGroup"
    /\ lastOp.arg = << <<>> >>
    /\ err = "ValueError"
    /\ ~HasGroup

----------------------------------------------------------------------------
(* Claims on SpecMH and SpecMHColor                                        *)

\* C4: after begin() and set_strobe calls within the frame, render writes
\* the byte-clamped maximum of the requested values on the strobe channel
\* (offset 4), whatever the order of the calls.
C4_StrobeChannelIsMax ==
    (Rendered /\ sent # None /\ sent[1] # {}) =>
        WrittenAt(mh.address + 4) = { dmx_clamp(MaxOf(sent[1])) }

\* The first wheel entry, in table order, at the least distance of color.
FirstClosest(color) ==
    CHOOSE k \in DOMAIN COLOR_WHEEL_ENTRIES :
        /\ \A j \in DOMAIN COLOR_WHEEL_ENTRIES :
              color[COLOR_WHEEL_ENTRIES[k].color]
                  <= color[COLOR_WHEEL_ENTRIES[j].color]
        /\ \A j \in 1..(k - 1) :
              color[COLOR_WHEEL_ENTRIES[k].color]
                  < color[COLOR_WHEEL_ENTRIES[j].color]

\* The least distance of color to an entry other than entry k.
LeastBeside(color, k) ==
    LET D == { color[COLOR_WHEEL_ENTRIES[j].color] :
                 j \in DOMAIN COLOR_WHEEL_ENTRIES \ {k} }
    IN  CHOOSE d \in D : \A e \in D : d <= e

TableValues ==
    { COLOR_WHEEL_ENTRIES[k].dmx_value : k \in DOMAIN COLOR_WHEEL_ENTRIES }

----------------------------------------------------------------------------
(* Claims on SpecMHColor, SpecMHGobo and SpecMHPan                         *)

\* The arguments of the last call of op made on the moving head.
LastCall(op) == calls[op][1]
Called(op) == calls[op] # None

\* C11: when the last set_color was called with a colour at distance 0 of
\* a colour-wheel entry, render writes that entry's DMX value, and nothing
\* else, on the colour-wheel channel (address + 2): 10 for red.
C11_ExactColorExactValue ==
    (Rendered /\ Called("set_color")) =>
        \A k \in DOMAIN COLOR_WHEEL_ENTRIES :
            LastCall("set_color")[1][COLOR_WHEEL_ENTRIES[k].color] = 0 =>
                WrittenAt(mh.address + 2) = { COLOR_WHEEL_ENTRIES[k].dmx_value }

\* C11 witness: set_color(red), another call, then a render that wrote 10
\* at address + 2.
C11_Witness ==
    /\ Rendered
    /\ Called("set_color")
    /\ LastCall("set_color")[1]["red"] = 0
    /\ mh.dimmer_value = FromInt(200)
    /\ WrittenAt(mh.address + 2) = {10}

GoboTableNames ==
    { GOBO_WHEEL_ENTRIES[k].name : k \in DOMAIN GOBO_WHEEL_ENTRIES }

\* C12: set_gobo with a name that is in no entry of the gobo table raises
\* ValueError, whatever the speed, and leaves every field of the fixture
\* (the gobo value, the current-gobo index, every other channel) as it was.
C12_UnknownGoboRejected ==
    [][ (lastOp'.op = "set_gobo" /\ lastOp'.arg[1] \notin GoboTableNames) =>
            (err' = "ValueError" /\ mh' = mh) ]_vars

\* C12 witness: a gobo was selected in swivel mode, then set_gobo was
\* called with an unknown name and a positive speed, and raised.
C12_Witness ==
    /\ lastOp.op = "set_gobo"
    /\ lastOp.arg[1] \notin GoboTableNames
    /\ lastOp.arg[2] > 0
    /\ err = "ValueError"
    /\ mh._gobo_wheel_dmx >= 128
    /\ mh._current_gobo_index > 0

\* C13: when the last set_gobo was called with the name of a gobo-table
\* entry and the default speed 0 (or any speed not above 0), render writes
\* that entry's DMX value, and nothing else, on the gobo channel
\* (address + 3): open 65, dots 72, ..., ring 128, flower 136.
C13_GoboExactValue ==
    (Rendered /\ Called("set_gobo")) =>
        \A k \in DOMAIN GOBO_WHEEL_ENTRIES :
            (/\ LastCall("set_gobo")[1] = GOBO_WHEEL_ENTRIES[k].name
             /\ LastCall("set_gobo")[2] <= 0) =>
                /\ WrittenAt(mh.address + 3) = { GOBO_WHEEL_ENTRIES[k].dmx_value }
                /\ mh._current_gobo_index = k - 1

\* C13 witness: set_gobo("flower") then a render that wrote 136 at
\* address + 3.
C13_Witness ==
    /\ Rendered
    /\ Called("set_gobo")
    /\ LastCall("set_gobo") = << "flower", 0 >>
    /\ WrittenAt(mh.address + 3) = {136}

\* C14: after set_pan(255) render writes 212 on the pan channel (address),
\* after set_pan(0) it writes 127, and after set_tilt(255) it writes 85
\* (90 of 270 degrees) on the tilt channel (address + 1).
C14_PanTiltProjected ==
    Rendered =>
        /\ (Called("set_pan") /\ LastCall("set_pan")[1] = FromInt(ByteMax)) =>
              WrittenAt(mh.address) = {212}
        /\ (Called("set_pan") /\ LastCall("set_pan")[1] = FromInt(0)) =>
              WrittenAt(mh.address) = {127}
        /\ (Called("set_tilt") /\ LastCall("set_tilt")[1] = FromInt(ByteMax)) =>
              WrittenAt(mh.address + 1) = {85}

----------------------------------------------------------------------------
(* get_entec_controller and find_entec_port (dmx_utils.py)                 *)
(*                                                                         *)
(* A device path is [prefix, family, tail], "/dev/cu." "usbserial"         *)
(* "-EN419206" for the hard-coded path, so that startswith and replace     *)
(* act on the prefix and glob on prefix and family.  The world w holds all *)
(* the functions read: the MOCK_DMX variable (None when unset),            *)
(* sys.platform, the paths that exist, the list comports() returns and     *)
(* the paths on which the serial Controller opens.  MockDmxController and  *)
(* the DMXEnttecPro Controller are not in the excerpt: they are the values *)
(* returned.                                                               *)

Path(prefix, family, tail) ==
    [prefix |-> prefix, family |-> family, tail |-> tail]

\* dmx_utils.py:30
usb_path == Path("/dev/cu.", "usbserial", "-EN419206")

\* str.startswith("/dev/cu.") and str.replace("/dev/cu.", "/dev/tty.")
startswith_cu(path) == path.prefix = "/dev/cu."
replace_cu_tty(path) ==
    IF path.prefix = "/dev/cu." THEN [path EXCEPT !.prefix = "/dev/tty."]
                                ELSE path

os_path_exists(w, path) == path \in w.exists

\* dmx_utils.py:54-73: the loop over the ports from index k on; the device
\* of the first port whose hwid is FTDI's or that carries a keyword.
RECURSIVE scan_ports(_, _)
scan_ports(ports, k) ==
    IF k > Len(ports) THEN None
    ELSE IF ports[k].ftdi_hwid \/ ports[k].keyword THEN Some(ports[k].device)
    ELSE scan_ports(ports, k + 1)

\* dmx_utils.py:76-87
scan_patterns(platform) ==
    IF platform = "darwin"
    THEN << [prefix |-> "/dev/cu.",  family |-> "usbserial"],
            [prefix |-> "/dev/cu.",  family |-> "usbmodem"],
            [prefix |-> "/dev/tty.", family |-> "usbserial"],
            [prefix |-> "/dev/tty.", family |-> "usbmodem"] >>
    ELSE << [prefix |-> "/dev/", family |-> "ttyUSB"],
            [prefix |-> "/dev/", family |-> "ttyACM"] >>

\* glob.glob(pattern): the existing paths the pattern matches.
glob(w, pattern) ==
    { p \in w.exists : p.prefix = pattern.prefix /\ p.family = pattern.family }

\* dmx_utils.py:90-94: the loops from pattern k on; any path of the first
\* pattern that matches one (glob's order is the directory's).
RECURSIVE scan_dev(_, _, _)
scan_dev(w, patterns, k) ==
    IF k > Len(patterns) THEN None
    ELSE IF glob(w, patterns[k]) # {}
         THEN Some(CHOOSE p \in glob(w, patterns[k]) : TRUE)
         ELSE scan_dev(w, patterns, k + 1)

\* dmx_utils.py:33-97
find_entec_port(w) ==
    LET tty_path == replace_cu_tty(usb_path)
        port     == scan_ports(w.ports, 1)
    IN  IF os_path_exists(w, usb_path) THEN Some(usb_path)
        ELSE IF w.platform = "darwin" /\ os_path_exists(w, tty_path)
        THEN Some(tty_path)
        ELSE IF port # None THEN port
        ELSE scan_dev(w, scan_patterns(w.platform), 1)

\* parrot.utils.mock_controller.MockDmxController() (not in the excerpt)
MockDmxController == [kind |-> "MockDmxController"]

\* DMXEnttecPro.Controller(path): the controller on success.
Controller(path) == [kind |-> "Controller", port |-> path]
Opens(w, path) == path \in w.opens

\* The calls get_entec_controller makes, as logged.
CallFind(ret) == [fn |-> "find_entec_port", ret |-> ret]
CallController(path, ok) == [fn |-> "Controller", path |-> path, ok |-> ok]
CallExists(path, ret) == [fn |-> "os.path.exists", path |-> path, ret |-> ret]

\* A test that never asks for the mock.
mock_never_requested(w) == FALSE

\* dmx_utils.py:141: os.environ.get("MOCK_DMX", False) != False
mock_requested(w) == w.MOCK_DMX # None

Returned(value, log) == [result |-> Some(value), raised |-> "none", calls |-> log]
Raised(exc, log) == [result |-> None, raised |-> exc, calls |-> log]

\* get_entec_controller without its except clauses.
get_entec_controller_uncaught(w) ==
    LET found == find_entec_port(w)
    IN  IF mock_requested(w) THEN Returned(MockDmxController, <<>>)
        ELSE IF found = None
        THEN Returned(MockDmxController, << CallFind(found) >>)
        ELSE IF Opens(w, found[1])
        THEN Returned(Controller(found[1]),
                      << CallFind(found), CallController(found[1], TRUE) >>)
        ELSE Raised("Exception",
                    << CallFind(found), CallController(found[1], FALSE) >>)

\* dmx_utils.py:138-179: the value returned, the exception raised and the
\* calls made.
get_entec_controller(w) ==
    LET found     == find_entec_port(w)
        port_path == found[1]
        tty_path  == replace_cu_tty(port_path)
        first     == << CallFind(found), CallController(port_path, FALSE) >>
        probed    == first \o << CallExists(tty_path, os_path_exists(w, tty_path)) >>
    IN  IF mock_requested(w) THEN Returned(MockDmxController, <<>>)
        ELSE IF found = None
        THEN Returned(MockDmxController, << CallFind(found) >>)
        ELSE IF Opens(w, port_path)
        THEN Returned(Controller(port_path),
                      << CallFind(found), CallController(port_path, TRUE) >>)
        ELSE IF startswith_cu(port_path)
        THEN IF os_path_exists(w, tty_path)
             THEN IF Opens(w, tty_path)
                  THEN Returned(Controller(tty_path),
                                probed \o << CallController(tty_path, TRUE) >>)
                  ELSE Returned(MockDmxController,
                                probed \o << CallController(tty_path, FALSE) >>)
             ELSE Returned(MockDmxController, probed)
        ELSE Returned(MockDmxController, first)

----------------------------------------------------------------------------
(* SpecEntec: the process environment, the devices plugged in and calls of *)
(* get_entec_controller.  Here ctl is [w, result]: the world and the value *)
(* the last call returned; calls is the log of the calls it made.          *)

\* The device pool: the hard-coded path and its tty sibling, a modem
\* device and its tty sibling, a Linux USB serial device; one path at most
\* for each glob pattern.
DevPaths ==
    { usb_path, replace_cu_tty(usb_path),
      Path("/dev/cu.", "usbmodem", "1"), Path("/dev/tty.", "usbmodem", "1"),
      Path("/dev/", "ttyUSB", "0") }

\* What comports() lists: nothing, an FTDI device, or a port that matches
\* nothing followed by one whose description carries a keyword.
PortLists ==
    { <<>>,
      << [device |-> Path("/dev/", "ttyUSB", "0"),
          ftdi_hwid |-> TRUE, keyword |-> FALSE] >>,
      << [device |-> Path("/dev/cu.", "Bluetooth", "-Incoming-Port"),
          ftdi_hwid |-> FALSE, keyword |-> FALSE],
         [device |-> Path("/dev/cu.", "usbmodem", "1"),
          ftdi_hwid |-> FALSE, keyword |-> TRUE] >> }

MockEnvValues == {None, Some("1"), Some("")}
Platforms == {"darwin", "linux"}

\* The paths on which Controller() opens: none, all, the cu.* ones only,
\* all but the cu.* ones.
OpensSets ==
    { {}, DevPaths, { p \in DevPaths : startswith_cu(p) },
      { p \in DevPaths : ~startswith_cu(p) } }

Worlds ==
    [ MOCK_DMX : MockEnvValues, platform : Platforms,
      exists : SUBSET DevPaths, ports : PortLists, opens : OpensSets ]

EntecInit ==
    /\ \E w \in Worlds : ctl = [kind |-> "entec", w |-> w, result |-> None]
    /\ fixtures = <<>>
    /\ group = NoGroup
    /\ mh = NoMH
    /\ dmx = <<>>
    /\ warnings = 0
    /\ err = "none"
    /\ calls = <<>>
    /\ lastOp = Op("start", 0, <<>>)
    /\ sent = None
    /\ manual = None

\* A change of the world between two calls.
EntecWorld(w, op, arg) ==
    /\ ctl' = [ctl EXCEPT !.w = w, !.result = None]
    /\ lastOp' = Op(op, 0, arg)
    /\ calls' = <<>>
    /\ err' = "none"
    /\ UNCHANGED <<fixtures, group, mh, dmx, warnings, sent, manual>>

\* MOCK_DMX is set or unset in the environment.
EntecSetEnv ==
    \E v \in MockEnvValues :
        EntecWorld([ctl.w EXCEPT !.MOCK_DMX = v], "setenv", <<v>>)

\* Devices are plugged or unplugged, and open or fail to.
EntecReplug ==
    \E e \in SUBSET DevPaths, o \in OpensSets :
        EntecWorld([ctl.w EXCEPT !.exists = e, !.opens = o], "replug", <<>>)

EntecGetController ==
    LET r == get_entec_controller(ctl.w)
    IN  /\ ctl' = [ctl EXCEPT !.result = r.result]
        /\ err' = r.raised
        /\ calls' = r.calls
        /\ lastOp' = Op("get_entec_controller", 0, <<>>)
        /\ UNCHANGED <<fixtures, group, mh, dmx, warnings, sent, manual>>

EntecNext ==
    \/ EntecSetEnv
    \/ EntecReplug
    \/ EntecGetController

SpecEntec == EntecInit /\ [][EntecNext]_vars

----------------------------------------------------------------------------
(* Claims on SpecEntec                                                     *)

IsOpen(c) == c.fn = "Controller"
IsFind(c) == c.fn = "find_entec_port"
OpenAttempts == SelectSeq(calls, IsOpen)

\* C15: get_entec_controller raises nothing and returns the mock or a real
\* controller, a real one exactly when its last open attempt succeeded and
\* on the path of that attempt; it makes at most two open attempts, a
\* second one only after a failed first one on a /dev/cu.* path, on the
\* /dev/tty.* sibling of that path, which exists.
C15_AlwaysReturnsController ==
    lastOp.op = "get_entec_controller" =>
        LET n == Len(OpenAttempts)
        IN  /\ err = "none"
            /\ ctl.result # None
            /\ n <= 2
            /\ IF n > 0 /\ OpenAttempts[n].ok
               THEN ctl.result[1] = [kind |-> "Controller",
                                     port |-> OpenAttempts[n].path]
               ELSE ctl.result[1] = [kind |-> "MockDmxController"]
            /\ \A i \in 1..n : OpenAttempts[i].ok = (OpenAttempts[i].path \in ctl.w.opens)
            /\ n = 2 =>
                  /\ ~OpenAttempts[1].ok
                  /\ OpenAttempts[1].path.prefix = "/dev/cu."
                  /\ OpenAttempts[2].path =
                        [OpenAttempts[1].path EXCEPT !.prefix = "/dev/tty."]
                  /\ OpenAttempts[2].path \in ctl.w.exists

\* C15 witness: the open of a cu.* path failed, its tty.* sibling was tried
\* and failed too, and the mock was returned.
C15_Witness ==
    /\ lastOp.op = "get_entec_controller"
    /\ Len(OpenAttempts) = 2
    /\ ~OpenAttempts[2].ok
    /\ ctl.result = Some([kind |-> "MockDmxController"])
    /\ err = "none"

\* C16: with MOCK_DMX set in the environment (to "1", or to any string),
\* get_entec_controller returns the mock and calls neither
\* find_entec_port nor Controller.
C16_MockEnvSkipsDiscovery ==
    (lastOp.op = "get_entec_controller" /\ ctl.w.MOCK_DMX # None) =>
        /\ ctl.result = Some([kind |-> "MockDmxController"])
        /\ calls = <<>>
        /\ err = "none"

\* C16 witness: MOCK_DMX=1, the hard-coded device present and opening, and
\* the mock returned.
C16_Witness ==
    /\ lastOp.op = "get_entec_controller"
    /\ ctl.w.MOCK_DMX = Some("1")
    /\ usb_path \in ctl.w.exists
    /\ usb_path \in ctl.w.opens
    /\ ctl.result = Some([kind |-> "MockDmxController"])

----------------------------------------------------------------------------
(* ArtNetController and SwitchController (dmx_utils.py)                    *)
(*                                                                         *)
(* A controller_map is the dict in insertion order: a sequence of          *)
(* [universe, controller] with distinct universes, controller the index of *)
(* an ArtNetController object.  An ArtNetController is its dmx_data, by    *)
(* Python's slot numbers 0..511, and the frame last handed to the Art-Net  *)
(* sender (None before the first submit).                                  *)

\* dmx_utils.py:105: [0] * 512
ArtNetSlots == 512

\* dmx_utils.py:103-105
ArtNetController(artnet_ip, artnet_universe) ==
    [ dmx_data |-> [i \in 0..(ArtNetSlots - 1) |-> 0],
      frame    |-> None ]

\* set_channel on slot numbers 0..511 taken for channel numbers.
artnet_set_channel_zero_based(c, channel, value, universe) ==
    IF 0 <= channel /\ channel < ArtNetSlots
    THEN IF isnan(value)
         THEN [object |-> c, raised |-> "ValueError"]
         ELSE [object |-> [c EXCEPT !.dmx_data[channel] = int(value)],
               raised |-> "none"]
    ELSE [object |-> c, raised |-> "none"]

\* dmx_utils.py:107-111; int(value) raises ValueError on a NaN.
artnet_set_channel(c, channel, value, universe) ==
    IF 1 <= channel /\ channel <= ArtNetSlots
    THEN IF isnan(value)
         THEN [object |-> c, raised |-> "ValueError"]
         ELSE [object |-> [c EXCEPT !.dmx_data[channel - 1] = int(value)],
               raised |-> "none"]
    ELSE [object |-> c, raised |-> "none"]

\* dmx_utils.py:113-116
artnet_submit(c) == [c EXCEPT !.frame = Some(c.dmx_data)]

\* The calls a SwitchController makes on a backend, as logged.
BackendSetChannel(b, channel, value) ==
    [on |-> b, op |-> "set_channel", channel |-> channel, value |-> value]
BackendSubmit(b) == [on |-> b, op |-> "submit"]

\* dict.get(universe): the controller registered, None when there is none.
RECURSIVE map_get(_, _, _)
map_get(controller_map, universe, k) ==
    IF k > Len(controller_map) THEN None
    ELSE IF controller_map[k].universe = universe
         THEN Some(controller_map[k].controller)
         ELSE map_get(controller_map, universe, k + 1)

\* set_channel forwarded to every registered backend.
RECURSIVE switch_set_channel_all_loop(_, _, _, _, _)
switch_set_channel_all_loop(controller_map, backends, channel, value, k) ==
    IF k > Len(controller_map)
    THEN [backends |-> backends, calls |-> <<>>, raised |-> "none"]
    ELSE LET b    == controller_map[k].controller
             r    == artnet_set_channel(backends[b], channel, value, None)
             rest == switch_set_channel_all_loop(
                         controller_map,
                         [backends EXCEPT ![b] = r.object],
                         channel, value, k + 1)
         IN  [rest EXCEPT !.calls =
                  << BackendSetChannel(b, channel, value) >> \o @]

switch_set_channel_all(controller_map, backends, channel, value, universe) ==
    switch_set_channel_all_loop(controller_map, backends, channel, value, 1)

\* dmx_utils.py:122-125: the backends after the call, the calls made on
\* them and the exception raised.
switch_set_channel(controller_map, backends, channel, value, universe) ==
    LET controller == map_get(controller_map, universe, 1)
    IN  IF controller # None
        THEN LET b == controller[1]
                 r == artnet_set_channel(backends[b], channel, value, None)
             IN  [ backends |-> [backends EXCEPT ![b] = r.object],
                   calls    |-> << BackendSetChannel(b, channel, value) >>,
                   raised   |-> r.raised ]
        ELSE [backends |-> backends, calls |-> <<>>, raised |-> "none"]

\* dmx_utils.py:127-129: the loop over controller_map.values() from
\* position k on.
RECURSIVE switch_submit_loop(_, _, _)
switch_submit_loop(controller_map, backends, k) ==
    IF k > Len(controller_map)
    THEN [backends |-> backends, calls |-> <<>>]
    ELSE LET b    == controller_map[k].controller
             rest == switch_submit_loop(
                         controller_map,
                         [backends EXCEPT ![b] = artnet_submit(backends[b])],
                         k + 1)
         IN  [rest EXCEPT !.calls = << BackendSubmit(b) >> \o @]

switch_submit(controller_map, backends) ==
    switch_submit_loop(controller_map, backends, 1)

----------------------------------------------------------------------------
(* SpecTransport: two ArtNetController objects, a SwitchController over a  *)
(* controller_map and the calls made on them.  Here ctl is                 *)
(* [controller_map, backends], calls the log of the calls the last         *)
(* SwitchController operation made on its backends.                        *)

Backends == {1, 2}

\* The maps a SwitchController is built over: empty, one universe, two
\* universes in either insertion order; a backend serves one universe.
ControllerMaps ==
    { <<>>,
      << [universe |-> Universe_default, controller |-> 1] >>,
      << [universe |-> Universe_default, controller |-> 1],
         [universe |-> "art2", controller |-> 2] >>,
      << [universe |-> "art2", controller |-> 2],
         [universe |-> Universe_default, controller |-> 1] >> }

\* The arguments of set_channel: channels at and around both ends of the
\* range, a value that int() truncates and does not clamp and a NaN,
\* universes registered or not.
ChannelSet == {0, 1, ArtNetSlots, ArtNetSlots + 1}
WriteSet == {FromInt(300) + 1, NaN}
UniverseSet == {Universe_default, "art2", "art3"}

TransportInit ==
    /\ \E m \in ControllerMaps :
          ctl = [ kind           |-> "switch",
                  controller_map |-> m,
                  backends       |-> [b \in Backends |->
                                         ArtNetController("127.0.0.1", 0)] ]
    /\ fixtures = <<>>
    /\ group = NoGroup
    /\ mh = NoMH
    /\ dmx = <<>>
    /\ warnings = 0
    /\ err = "none"
    /\ calls = <<>>
    /\ lastOp = Op("__init__", 0, <<>>)
    /\ sent = None
    /\ manual = None

TransportStep(backends, log, raised, op, on, arg) ==
    /\ ctl' = [ctl EXCEPT !.backends = backends]
    /\ calls' = log
    /\ err' = raised
    /\ lastOp' = Op(op, on, arg)
    /\ UNCHANGED <<fixtures, group, mh, dmx, warnings, sent, manual>>

\* set_channel called on an ArtNetController itself.
ArtNetSetChannel ==
    \E b \in Backends, channel \in ChannelSet, value \in WriteSet,
       universe \in {None, Some(Universe_default)} :
        LET r == artnet_set_channel(ctl.backends[b], channel, value, universe)
        IN  TransportStep([ctl.backends EXCEPT ![b] = r.object], <<>>,
                          r.raised, "ArtNetController.set_channel", b,
                          <<channel, value, universe>>)

SwitchSetChannel ==
    \E channel \in ChannelSet, value \in WriteSet, universe \in UniverseSet :
        LET r == switch_set_channel(ctl.controller_map, ctl.backends,
                                    channel, value, universe)
        IN  TransportStep(r.backends, r.calls, r.raised,
                          "SwitchController.set_channel", 0,
                          <<channel, value, universe>>)

SwitchSubmit ==
    LET r == switch_submit(ctl.controller_map, ctl.backends)
    IN  TransportStep(r.backends, r.calls, "none",
                      "SwitchController.submit", 0, <<>>)

TransportNext ==
    \/ ArtNetSetChannel
    \/ SwitchSetChannel
    \/ SwitchSubmit

SpecTransport == TransportInit /\ [][TransportNext]_vars

----------------------------------------------------------------------------
(* Claims on SpecTransport                                                 *)

\* C17: ArtNetController.set_channel(channel, value, universe) with a
\* channel outside 1..512 leaves all 512 slots as they were and raises
\* nothing, whatever the value; with a channel c in 1..512 and a finite
\* value it sets slot c - 1 to int(value) and leaves every other slot as it
\* was, whatever the universe argument; the other controller is untouched.
C17_ArtNetSetChannel ==
    [][ lastOp'.op = "ArtNetController.set_channel" =>
          LET b       == lastOp'.on
              channel == lastOp'.arg[1]
              value   == lastOp'.arg[2]
              before  == ctl.backends[b].dmx_data
              after   == ctl'.backends[b].dmx_data
          IN  /\ DOMAIN after = 0..511
              /\ \A o \in Backends \ {b} : ctl'.backends[o] = ctl.backends[o]
              /\ (channel < 1 \/ channel > 512) =>
                    (after = before /\ err' = "none")
              /\ (channel >= 1 /\ channel <= 512 /\ value # NaN) =>
                    /\ err' = "none"
                    /\ after = [before EXCEPT ![channel - 1] =
                          (IF value >= 0 THEN value \div Unit
                                         ELSE -((-value) \div Unit))] ]_vars

\* C17 witness: set_channel(512, 300.5) stored 300 in slot 511 of a buffer
\* whose slot 0 was already written.
C17_Witness ==
    /\ lastOp.op = "ArtNetController.set_channel"
    /\ lastOp.arg[1] = 512
    /\ ctl.backends[lastOp.on].dmx_data[511] = 300
    /\ ctl.backends[lastOp.on].dmx_data[0] = 300
    /\ err = "none"

IsSubmitOn(b) == { k \in DOMAIN calls : calls[k] = [on |-> b, op |-> "submit"] }
Registered(u) ==
    { ctl.controller_map[k].controller :
        k \in { j \in DOMAIN ctl.controller_map :
                  ctl.controller_map[j].universe = u } }
AllRegistered ==
    { ctl.controller_map[k].controller : k \in DOMAIN ctl.controller_map }

\* C18: SwitchController.set_channel(channel, value, universe) makes one
\* call, set_channel(channel, value), on the backend registered for the
\* universe and leaves every other backend as it was; with no backend
\* registered for the universe it makes no call, changes nothing and
\* raises nothing.  SwitchController.submit calls submit once on every
\* registered backend and on no other, and nothing else.
C18_SwitchForwards ==
    [][ /\ lastOp'.op = "SwitchController.set_channel" =>
            LET channel == lastOp'.arg[1]
                value   == lastOp'.arg[2]
                target  == Registered(lastOp'.arg[3])
            IN  /\ \A b \in Backends \ target :
                      ctl'.backends[b] = ctl.backends[b]
                /\ target = {} =>
                      (calls' = <<>> /\ ctl' = ctl /\ err' = "none")
                /\ \A b \in target :
                      calls' = << [on |-> b, op |-> "set_channel",
                                   channel |-> channel, value |-> value] >>
        /\ lastOp'.op = "SwitchController.submit" =>
            /\ err' = "none"
            /\ Len(calls') = Cardinality(AllRegistered)
            /\ \A k \in DOMAIN calls' :
                  calls'[k].op = "submit" /\ calls'[k].on \in AllRegistered
            /\ \A b \in AllRegistered :
                  Cardinality({ k \in DOMAIN calls' :
                                   calls'[k].on = b }) = 1
            /\ \A b \in Backends :
                  ctl'.backends[b].dmx_data = ctl.backends[b].dmx_data ]_vars

\* C18 witness: with two backends registered, a write for universe "art2"
\* reached backend 2 alone.
C18_Witness ==
    /\ lastOp.op = "SwitchController.set_channel"
    /\ lastOp.arg[3] = "art2"
    /\ Len(ctl.controller_map) = 2
    /\ calls = << [on |-> 2, op |-> "set_channel", channel |-> 1,
                   value |-> FromInt(300) + 1] >>
    /\ ctl.backends[2].dmx_data[0] = 300
    /\ ctl.backends[1].dmx_data[0] = 0

----------------------------------------------------------------------------
(* C19 on SpecBase                                                         *)

\* The number of channels of f at or below channel 512.
InRange(f) ==
    Cardinality({ i \in 0..(f.width - 1) : f.address + i <= MaxChannel })

\* C19: the transport calls of FixtureBase.render are set_channel, submit,
\* set_channel, submit, ...: k pairs for the k channels at or below 512,
\* the log starting with a write, ending with a submit and holding nothing
\* for a channel beyond 512.
C19_SubmitAfterEachWrite ==
    Rendered =>
        LET k == InRange(fixtures[1])
        IN  /\ Len(dmx) = 2 * k
            /\ \A j \in 1..k :
                  /\ dmx[2 * j - 1].op = "set_channel"
                  /\ dmx[2 * j - 1].channel = fixtures[1].address + j - 1
                  /\ dmx[2 * j] = [op |-> "submit"]

\* C19 witness: a two-channel fixture at address 511 rendered write,
\* submit, write, submit.
C19_Witness ==
    /\ Rendered
    /\ fixtures[1].address = MaxChannel - 1
    /\ fixtures[1].width = 2
    /\ Len(dmx) = 4
    /\ dmx[1].op = "set_channel" /\ dmx[2].op = "submit"
    /\ dmx[3].op = "set_channel" /\ dmx[4].op = "submit"
    /\ warnings = 0

----------------------------------------------------------------------------
(* SpecClamp: dmx_clamp applied to a number and to its own result.  Here   *)
(* ctl is [origin, x, out, fed]: the number first given, the argument of   *)
(* the current call, its result (None before the call) and, when x is the  *)
(* result of an earlier call fed back, that result.                        *)

\* How far below 0 and above 255 the numbers given reach.
ClampMargin == 2

\* The numbers given: NaN and every multiple of 1/Unit from ClampMargin
\* below 0 to ClampMargin above 255.
ClampInputs ==
    {NaN} \cup (FromInt(-ClampMargin) .. FromInt(ByteMax + ClampMargin))

ClampInit ==
    /\ \E x \in ClampInputs :
          ctl = [kind |-> "clamp", origin |-> x, x |-> x,
                 out |-> None, fed |-> None]
    /\ fixtures = <<>>
    /\ group = NoGroup
    /\ mh = NoMH
    /\ dmx = <<>>
    /\ warnings = 0
    /\ err = "none"
    /\ calls = <<>>
    /\ lastOp = Op("start", 0, <<>>)
    /\ sent = None
    /\ manual = None

\* dmx_clamp(x) is called.
ClampCall ==
    /\ ctl.out = None
    /\ ctl' = [ctl EXCEPT !.out = Some(dmx_clamp(ctl.x))]
    /\ lastOp' = Op("dmx_clamp", 0, <<ctl.x>>)
    /\ UNCHANGED <<fixtures, group, mh, dmx, warnings, err, calls, sent,
                   manual>>

\* The integer returned becomes the argument of the next call.
ClampFeed ==
    /\ ctl.out # None
    /\ ctl' = [ctl EXCEPT !.x = FromInt(ctl.out[1]), !.out = None,
                          !.fed = ctl.out]
    /\ lastOp' = Op("feed", 0, <<>>)
    /\ UNCHANGED <<fixtures, group, mh, dmx, warnings, err, calls, sent,
                   manual>>

ClampNext ==
    \/ ClampCall
    \/ ClampFeed

SpecClamp == ClampInit /\ [][ClampNext]_vars

\* C20: dmx_clamp(x) is an integer in 0..255 for every x: 0 for a NaN and
\* for x < 0, 255 for x > 255, x truncated to an integer for x in
\* [0, 255]; and dmx_clamp of a result of dmx_clamp is that result.
C20_DmxClampTotalIdempotent ==
    ctl.out # None =>
        LET x == ctl.x
            r == ctl.out[1]
        IN  /\ r \in 0..255
            /\ x = NaN => r = 0
            /\ (x # NaN /\ x < 0) => r = 0
            /\ x > 255 * Unit => r = 255
            /\ (x >= 0 /\ x <= 255 * Unit) =>
                  (r * Unit <= x /\ x < (r + 1) * Unit)
            /\ ctl.fed # None => r = ctl.fed[1]

\* C20 witness: 255.5 was clamped to 255 and 255 was clamped to 255 again.
C20_Witness ==
    /\ ctl.origin = FromInt(ByteMax) + 1
    /\ ctl.fed = Some(255)
    /\ ctl.out = Some(255)

----------------------------------------------------------------------------
(* The patch bay (patch_bay.py)                                            *)
(*                                                                         *)
(* ParRGB and ParRGBAWU are not in the excerpt: they are taken to be       *)
(* FixtureBase objects of 3 and 6 channels built from a "patch" address.   *)
(* A keyword call is the record of its keyword arguments.                  *)

\* patch_bay.py:20-23
Venues == {"dmack", "mtn_lotus", "truckee_theatre", "crux_test",
           "two_heads_only"}

\* parrot.fixtures.led_par.ParRGB / ParRGBAWU (not in the excerpt)
ParRGB(patch) == FixtureBase(patch, "ParRGB", 3, Universe_default)
ParRGBAWU(patch) == FixtureBase(patch, "ParRGBAWU", 6, Universe_default)

\* generic_chinese_mh.py:80-85: the parameters of __init__ besides self,
\* and those without a default.
MH_init_parameters == {"address", "name", "universe"}
MH_init_required == {"address", "name"}

\* Python's binding of a keyword call to generic_chinese_mh.py:80-85: a
\* keyword that names no parameter, or a required parameter left without
\* an argument, raises TypeError before the body runs.
new_GenericChineseMovingHead10ch(kwargs) ==
    IF ~(DOMAIN kwargs \subseteq MH_init_parameters)
       \/ ~(MH_init_required \subseteq DOMAIN kwargs)
    THEN [raised |-> "TypeError", value |-> None]
    ELSE [raised |-> "none",
          value  |-> Some(GenericChineseMovingHead10ch(
                              kwargs.address, kwargs.name,
                              IF "universe" \in DOMAIN kwargs
                              THEN kwargs.universe ELSE None))]

\* patch_bay.py:26-31: the list returned, or the exception raised.
two_heads_only ==
    LET c == new_GenericChineseMovingHead10ch(
                 [patch |-> 1, name |-> "Front Spot 1",
                  universe |-> Universe_default])
    IN  IF c.raised # "none" THEN c
        ELSE [raised |-> "none", value |-> Some(<< c.value[1] >>)]

\* patch_bay.py:80-85: the fixtures of the two manual groups, on the heap.
manual_fixtures == << ParRGBAWU(200), ParRGB(220), ParRGB(240), ParRGB(260) >>

\* patch_bay.py:78-88: the registry and the heap after its construction.
manual_groups_built ==
    LET lotus   == ManualGroup_init(<<1, 2>>, manual_fixtures,
                                    Some("Mountain Lotus Manual"),
                                    Universe_default)
        truckee == ManualGroup_init(<<3, 4>>, lotus.fixtures,
                                    Some("Truckee Manual"), Universe_default)
    IN  [ manual_groups |->
            [v \in Venues |->
                CASE v = "mtn_lotus"       -> Some(lotus.group)
                  [] v = "truckee_theatre" -> Some(truckee.group)
                  [] OTHER                 -> None],
          fixtures |-> truckee.fixtures ]

\* dict.get(venue)
registry_get(manual_groups, venue) ==
    IF venue \in DOMAIN manual_groups THEN manual_groups[venue] ELSE None

\* patch_bay.py:91-92
get_manual_group(manual_groups, venue) == registry_get(manual_groups, venue)

\* A test of the venue being a key of the registry.
has_manual_dimmer_key_present(manual_groups, venue) ==
    venue \in DOMAIN manual_groups

\* patch_bay.py:95-97
has_manual_dimmer(manual_groups, venue) ==
    LET manual_group == registry_get(manual_groups, venue)
    IN  manual_group # None /\ Len(manual_group[1].fixtures) > 0

----------------------------------------------------------------------------
(* SpecPatchBay: the manual-group registry as patch_bay.py:78-88 builds    *)
(* it, the call of _two_heads_only() that patch_bay.py:75 makes, the two   *)
(* queries and the operator's set_manual_dimmer on a registered group.     *)
(* Here ctl is [manual_groups, result]: the registry and what the last     *)
(* call returned (None when it returned nothing or raised).                *)

PatchBayInit ==
    /\ ctl = [kind |-> "patch_bay",
              manual_groups |-> manual_groups_built.manual_groups,
              result |-> None]
    /\ fixtures = manual_groups_built.fixtures
    /\ group = NoGroup
    /\ mh = NoMH
    /\ dmx = <<>>
    /\ warnings = 0
    /\ err = "none"
    /\ calls = <<>>
    /\ lastOp = Op("import", 0, <<>>)
    /\ sent = None
    /\ manual = None

\* A call that returns result or raises, and touches no object.
PatchBayCall(result, raised, op, arg) ==
    /\ ctl' = [ctl EXCEPT !.result = result]
    /\ err' = raised
    /\ lastOp' = Op(op, 0, arg)
    /\ calls' = <<>>
    /\ UNCHANGED <<fixtures, group, mh, dmx, warnings, sent, manual>>

TwoHeadsOnly ==
    PatchBayCall(two_heads_only.value, two_heads_only.raised,
                 "_two_heads_only", <<>>)

GetManualGroup ==
    \E v \in Venues :
        PatchBayCall(Some(get_manual_group(ctl.manual_groups, v)), "none",
                     "get_manual_group", <<v>>)

HasManualDimmer ==
    \E v \in Venues :
        PatchBayCall(Some(has_manual_dimmer(ctl.manual_groups, v)), "none",
                     "has_manual_dimmer", <<v>>)

\* The operator moves the manual dimmer of a venue's group.
VenueSetManualDimmer ==
    \E v \in Venues, value \in ManualDimmerSet :
        /\ ctl.manual_groups[v] # None
        /\ LET r == set_manual_dimmer(ctl.manual_groups[v][1], fixtures, value)
           IN  /\ ctl' = [ctl EXCEPT !.manual_groups[v] = Some(r.group),
                                     !.result = None]
               /\ fixtures' = r.fixtures
               /\ calls' = r.calls
        /\ manual' = Some(value)
        /\ err' = "none"
        /\ lastOp' = Op("set_manual_dimmer", 0, <<v, value>>)
        /\ UNCHANGED <<group, mh, dmx, warnings, sent>>

PatchBayNext ==
    \/ TwoHeadsOnly
    \/ GetManualGroup
    \/ HasManualDimmer
    \/ VenueSetManualDimmer

SpecPatchBay == PatchBayInit /\ [][PatchBayNext]_vars

----------------------------------------------------------------------------
(* Claims on SpecPatchBay                                                  *)

\* C21: the call _two_heads_only() made at module load raises nothing and
\* returns a list of exactly one fixture, a GenericChineseMovingHead10ch
\* with address 1, name "Front Spot 1", width 10 and the default universe.
C21_TwoHeadsOnlyBuilt ==
    lastOp.op = "_two_heads_only" =>
        /\ err = "none"
        /\ ctl.result # None
        /\ Len(ctl.result[1]) = 1
        /\ ctl.result[1][1].kind = "GenericChineseMovingHead10ch"
        /\ ctl.result[1][1].address = 1
        /\ ctl.result[1][1].name = "Front Spot 1"
        /\ ctl.result[1][1].width = 10
        /\ ctl.result[1][1].universe = Universe_default

----------------------------------------------------------------------------
(* Claims on SpecMH: the per-frame strobe reset                            *)

\* C23: on the generic moving head, a frame that called begin() and then
\* made no set_strobe call renders 0 on the strobe channel (address + 4),
\* whatever strobe values earlier frames requested.
C23_StrobeResetReachesChannel ==
    (Rendered /\ sent = Some({}) /\ Fits(mh)) =>
        WrittenAt(mh.address + 4) = {0}

----------------------------------------------------------------------------
(* SpecBaseSetters: one freshly constructed FixtureBase on which only the  *)
(* methods of FixtureBase itself are called (nothing stores into values).  *)

BaseSettersNext ==
    \/ BaseSetPosition
    \/ BaseSetColor
    \/ BaseSetDimmer
    \/ BaseBegin
    \/ BaseSetStrobe
    \/ BaseSetPan
    \/ BaseSetTilt
    \/ BaseSetSpeed
    \/ BaseRender

SpecBaseSetters == BaseInit /\ [][BaseSettersNext]_vars

BaseSetterNames ==
    { "set_position", "set_color", "set_dimmer", "set_strobe", "set_speed",
      "set_pan", "set_tilt", "begin" }

\* C24: on a FixtureBase none of set_position, set_color, set_dimmer,
\* set_strobe, set_speed, set_pan, set_tilt and begin changes the value
\* array, the address, the width or the universe; set_pan and set_tilt
\* change nothing at all; and after any sequence of these calls on a fresh
\* fixture render transmits what it transmits for the fresh fixture: 0 on
\* every channel it writes, which is every one of its channels when the
\* fixture fits in the universe.
C24_SettersLeaveChannelsAlone ==
    [][ LET f == fixtures[1]
            g == fixtures'[1]
            w == Writes(dmx')
        IN  /\ lastOp'.op \in BaseSetterNames =>
                /\ g.values = f.values
                /\ g.address = f.address
                /\ g.width = f.width
                /\ g.universe = f.universe
                /\ dmx' = <<>>
            /\ lastOp'.op \in {"set_pan", "set_tilt"} => g = f
            /\ lastOp'.op = "render" =>
                /\ g = f
                /\ g.values = [i \in 1..g.width |-> 0]
                /\ dmx' = render(FixtureBase(g.address, g.name, g.width,
                                             g.universe)).events
                /\ \A i \in 1..Len(w) :
                      /\ w[i].channel = g.address + (i - 1)
                      /\ w[i].value = 0
                /\ Fits(g) => Len(w) = g.width ]_vars

\* C24 witness: a two-channel fixture rendered after its position, color,
\* dimmer, strobe and speed were all set.
C24_Witness ==
    LET f == fixtures[1]
    IN  /\ Rendered
        /\ Fits(f)
        /\ f.width = 2
        /\ f.x # None
        /\ f.color_value = "red"
        /\ f.dimmer_value = FromInt(200)
        /\ f.strobe_value = FromInt(10)
        /\ f.speed_value = FromInt(3)
        /\ Len(Writes(dmx)) = 2

----------------------------------------------------------------------------
(* SpecStrobe: a FixtureGroup of FixtureBase members, with set_strobe      *)
(* called on the group and directly on single fixtures.  Here sent[0] is   *)
(* the set of values given to the group's set_strobe and sent[i] the set   *)
(* given directly to fixture i's, each since the last begin that reached   *)
(* the object.                                                             *)

StrobeGroupBegin ==
    /\ HasGroup
    /\ GroupStep(FixtureGroup_begin(group, fixtures), "begin", <<>>)
    /\ sent' = [i \in DOMAIN sent |->
                   IF i = 0 \/ IsMember(i) THEN {} ELSE sent[i]]
    /\ UNCHANGED <<manual, ctl>>

StrobeGroupSetStrobe ==
    /\ HasGroup
    /\ \E v \in StrobeSet :
          /\ GroupStep(FixtureGroup_set_strobe(group, fixtures, v),
                       "set_strobe", <<v>>)
          /\ sent' = [sent EXCEPT ![0] = @ \cup {v}]
    /\ UNCHANGED <<manual, ctl>>

\* fixture.set_strobe(v) called on one fixture of the pool, not through
\* the group.
StrobeMemberSetStrobe ==
    \E i \in DOMAIN fixtures, v \in StrobeSet :
        /\ fixtures' = [fixtures EXCEPT ![i] = set_strobe(@, v)]
        /\ sent' = [sent EXCEPT ![i] = @ \cup {v}]
        /\ lastOp' = Op("set_strobe", i, <<v>>)
        /\ calls' = <<>>
        /\ dmx' = <<>>
        /\ warnings' = 0
        /\ err' = "none"
        /\ UNCHANGED <<group, mh, manual, ctl>>

StrobeNext ==
    \/ NewFixtureGroup
    \/ StrobeGroupBegin
    \/ StrobeGroupSetStrobe
    \/ StrobeMemberSetStrobe

SpecStrobe == GroupInit /\ [][StrobeNext]_vars

\* C25: in a FixtureGroup of base-strobe members, under any interleaving of
\* set_strobe calls on the group and directly on members, every member's
\* stored strobe is at least the group's own and equals the maximum of 0,
\* the values sent to the group and the values sent to that member since
\* group.begin(); the group's own is the maximum of 0 and the values sent
\* to the group; right after group.begin() the group and all members are
\* at 0.
C25_MemberStrobeDominatesGroup ==
    HasGroup =>
        /\ group.strobe_value = MaxOf({0} \cup sent[0])
        /\ \A k \in DOMAIN group.fixtures :
              LET i == group.fixtures[k]
              IN  /\ fixtures[i].strobe_value >= group.strobe_value
                  /\ fixtures[i].strobe_value =
                        MaxOf({0} \cup sent[0] \cup sent[i])
        /\ lastOp = Op("begin", 0, <<>>) =>
              /\ group.strobe_value = 0
              /\ \A k \in DOMAIN group.fixtures :
                    fixtures[group.fixtures[k]].strobe_value = 0

\* C25 witness: after a begin, the group was sent 5 and one of its two
\* members was sent 10 directly, so that member stands above the group and
\* the other member level with it.
C25_Witness ==
    /\ HasGroup
    /\ Len(group.fixtures) = 2
    /\ sent[0] = {FromInt(5)}
    /\ sent[group.fixtures[1]] = {FromInt(10)}
    /\ sent[group.fixtures[2]] = {}
    /\ group.strobe_value = FromInt(5)
    /\ fixtures[group.fixtures[1]].strobe_value = FromInt(10)
    /\ fixtures[group.fixtures[2]].strobe_value = FromInt(5)

====
